---------------------------- MODULE Spec2Model ----------------------------
(***************************************************************************)
(* Model of the commit aggregate (store/commit_info.go) and the commitment *)
(* proof operator (store/proof.go).                                        *)
(*                                                                         *)
(* Byte strings are sequences of naturals.  SHA-256 is modelled            *)
(* symbolically: the digest of x is x between two marks that are no byte   *)
(* values, so that two digests are equal exactly when their inputs are.    *)
(* One CommitInfo is followed through its life: the caller constructs it,  *)
(* calls its methods, and may run the CommitmentOp a proof request         *)
(* returned.  The variables other than ci record the last call, its        *)
(* arguments and what it returned.                                         *)
(***************************************************************************)
EXTENDS Integers, Sequences, FiniteSets, TLC

VARIABLES
    ci,        \* the CommitInfo: Version, StoreInfos, Timestamp, CommitHash
    old,       \* ci as it was when the last call started
    last,      \* name of the last call
    key,       \* storeKey of the last GetStoreProof / GetStoreCommitID
    args,      \* args of the last Run
    root,      \* []byte returned by the last Hash / GetStoreProof
    op,        \* *CommitmentOp returned by the last GetStoreProof (NoOp: nil)
    roots,     \* [][]byte returned by the last Run
    err,       \* error returned by the last call ("nil": none)
    outcome,   \* "ok", "error" (an error was returned) or "panic"
    cid,       \* CommitID returned by the last GetStoreCommitID
    buf,       \* argument of the last Unmarshal
    wire,      \* bytes returned by the last Marshal, until used or dropped
    sent,      \* ci as it was when wire was produced
    firstHash, \* << >>, or <<h>>: h is what the first Hash() of this object returned
    changes    \* how often the owner has changed StoreInfos in place

vars == <<ci, old, last, key, args, root, op, roots, err, outcome, cid, buf,
          wire, sent, firstHash, changes>>

-----------------------------------------------------------------------------
(* Bounds of the model *)

MaxStores == 3
MaxArgs == 2
MaxChanges == 1

-----------------------------------------------------------------------------
(* The values the caller draws from *)

\* store names "a", "ab", "b", "c"
Names == {<<97>>, <<97, 98>>, <<98>>, <<99>>}
\* store hashes: opaque, non-empty
StoreHashes == {<<17>>, <<34>>}
StoreKeys == Names \cup {<< >>}

RECURSIVE DistinctSeqs(_, _)
DistinctSeqs(S, n) ==
    IF n = 0 \/ S = {} THEN {<< >>}
    ELSE {<< >>} \cup
         UNION {{<<x>> \o s : s \in DistinctSeqs(S \ {x}, n - 1)} : x \in S}

-----------------------------------------------------------------------------
(* Hashing and the Merkle tree builder *)

SHA256(x) == <<256>> \o x \o <<257>>

leafPrefix == <<0>>
innerPrefix == <<1>>

LeafHashErr(k, v) == FALSE
LeafHash(k, v) == SHA256(leafPrefix \o k \o v)
InnerHash(left, right) == SHA256(innerPrefix \o left \o right)

RECURSIVE getSplitPoint(_)
getSplitPoint(n) == IF n <= 2 THEN 1 ELSE 2 * getSplitPoint((n + 1) \div 2)

RECURSIVE HashFromByteSlices(_)
HashFromByteSlices(leaves) ==
    IF Len(leaves) = 0 THEN << >>
    ELSE IF Len(leaves) = 1 THEN leaves[1]
    ELSE LET k == getSplitPoint(Len(leaves))
         IN  InnerHash(HashFromByteSlices(SubSeq(leaves, 1, k)),
                       HashFromByteSlices(SubSeq(leaves, k + 1, Len(leaves))))

\* the inclusion path of leaf index (0-based), leaf level first: the sibling
\* subtree's root and the side it is on
RECURSIVE InclusionPath(_, _)
InclusionPath(leaves, index) ==
    IF Len(leaves) <= 1 THEN << >>
    ELSE LET k == getSplitPoint(Len(leaves))
             l == SubSeq(leaves, 1, k)
             r == SubSeq(leaves, k + 1, Len(leaves))
         IN  IF index < k
             THEN Append(InclusionPath(l, index),
                         [Sibling |-> HashFromByteSlices(r), Side |-> "right"])
             ELSE Append(InclusionPath(r, index - k),
                         [Sibling |-> HashFromByteSlices(l), Side |-> "left"])

ProofFromByteSlices(leaves, index) ==
    [rootHash |-> HashFromByteSlices(leaves),
     inners   |-> InclusionPath(leaves, index)]

-----------------------------------------------------------------------------
(* The ics23 commitment proof, as far as this package uses it *)

ProofOpSimpleMerkleCommitment == "ics23:simple"
TendermintSpec == "ics23.TendermintSpec"
TendermintLeafOp == "ics23.TendermintSpec.LeafSpec"

NoProof == [Exist |-> FALSE, Key |-> << >>, Value |-> << >>, Leaf |-> "", Path |-> << >>]
NoOp == [Type |-> "", Key |-> << >>, Spec |-> "", Proof |-> NoProof]

NewSimpleMerkleCommitmentOp(k, proof) ==
    [Type |-> ProofOpSimpleMerkleCommitment, Key |-> k, Spec |-> TendermintSpec,
     Proof |-> proof]

\* a step of the inclusion path as an ics23 InnerOp: the child is hashed
\* between Prefix and Suffix
ConvertInner(step) ==
    IF step.Side = "right"
    THEN [Prefix |-> innerPrefix, Suffix |-> step.Sibling]
    ELSE [Prefix |-> innerPrefix \o step.Sibling, Suffix |-> << >>]

ConvertCommitmentOp(inners, k, v) ==
    NewSimpleMerkleCommitmentOp(k,
        [Exist |-> TRUE, Key |-> k, Value |-> v, Leaf |-> TendermintLeafOp,
         Path  |-> [i \in 1..Len(inners) |-> ConvertInner(inners[i])]])

InnerOpApply(inner, child) == SHA256(inner.Prefix \o child \o inner.Suffix)

RECURSIVE ApplyPath(_, _)
ApplyPath(path, child) ==
    IF path = << >> THEN child
    ELSE ApplyPath(Tail(path), InnerOpApply(Head(path), child))

\* CommitmentProof.Calculate: the root the proof implies; the leaf operation
\* refuses an empty key and an empty value
Calculate(proof) ==
    IF ~proof.Exist \/ proof.Leaf = "" \/ proof.Key = << >> \/ proof.Value = << >>
    THEN [root |-> << >>, err |-> TRUE]
    ELSE [root |-> ApplyPath(proof.Path, LeafHash(proof.Key, proof.Value)),
          err  |-> FALSE]

CheckAgainstSpec(proof, spec) ==
    /\ spec = TendermintSpec
    /\ proof.Leaf = TendermintLeafOp
    /\ \A i \in 1..Len(proof.Path) :
          /\ Len(proof.Path[i].Prefix) >= 1
          /\ proof.Path[i].Prefix[1] # leafPrefix[1]

VerifyMembership(spec, rt, proof, k, v) ==
    /\ proof.Exist
    /\ proof.Key = k
    /\ CheckAgainstSpec(proof, spec)
    /\ proof.Value = v
    /\ ~Calculate(proof).err
    /\ Calculate(proof).root = rt

\* an existence proof (the only kind built here) holds no non-existence
\* proof for the key
VerifyNonMembership(spec, rt, proof, k) == FALSE

-----------------------------------------------------------------------------
(* proof.go: CommitmentOp.Run *)

ErrCalculate == "ErrInvalidProof: could not calculate root for proof"
ErrAbsence == "ErrInvalidProof: proof did not verify absence of key"
ErrExistence == "ErrInvalidProof: proof did not verify existence of key with given value"
ErrArgs == "ErrInvalidProof: args must be length 0 or 1"

\* Run with the argument count looked at before the proof
Run_ArityFirst(o, a) ==
    LET c == Calculate(o.Proof)
        failed(e) == [roots |-> << >>, err |-> e]
    IN  IF Len(a) > 1 THEN failed(ErrArgs)
        ELSE IF c.err THEN failed(ErrCalculate)
        ELSE IF Len(a) = 0
        THEN IF ~VerifyNonMembership(o.Spec, c.root, o.Proof, o.Key)
             THEN failed(ErrAbsence)
             ELSE [roots |-> <<c.root>>, err |-> "nil"]
        ELSE IF ~VerifyMembership(o.Spec, c.root, o.Proof, o.Key, a[1])
             THEN failed(ErrExistence)
             ELSE [roots |-> <<c.root>>, err |-> "nil"]

\* Run with the results of the two verifications ignored
Run_Unverified(o, a) ==
    LET c == Calculate(o.Proof)
        failed(e) == [roots |-> << >>, err |-> e]
    IN  IF c.err THEN failed(ErrCalculate)
        ELSE IF Len(a) <= 1 THEN [roots |-> <<c.root>>, err |-> "nil"]
        ELSE failed(ErrArgs)

Run(o, a) ==
    LET c == Calculate(o.Proof)
        failed(e) == [roots |-> << >>, err |-> e]
    IN  IF c.err THEN failed(ErrCalculate)
        ELSE IF Len(a) = 0
        THEN IF ~VerifyNonMembership(o.Spec, c.root, o.Proof, o.Key)
             THEN failed(ErrAbsence)
             ELSE [roots |-> <<c.root>>, err |-> "nil"]
        ELSE IF Len(a) = 1
        THEN IF ~VerifyMembership(o.Spec, c.root, o.Proof, o.Key, a[1])
             THEN failed(ErrExistence)
             ELSE [roots |-> <<c.root>>, err |-> "nil"]
        ELSE failed(ErrArgs)

-----------------------------------------------------------------------------
(* commit_info.go: the commit aggregate *)

ZeroCommitID == [Version |-> 0, Hash |-> << >>]
ZeroStoreInfo == [Name |-> << >>, CommitID |-> ZeroCommitID]
\* a time.Time: Unix seconds and nanoseconds within the second; zero marks
\* the zero time.Time (year 1), which has no Unix nanosecond count
ZeroTime == [zero |-> TRUE, sec |-> 0, nsec |-> 0]
ZeroCommitInfo ==
    [Version |-> 0, StoreInfos |-> << >>, Timestamp |-> ZeroTime, CommitHash |-> << >>]

GetHash(si) == si.CommitID.Hash

\* string comparison a < b: byte-wise lexicographic
RECURSIVE StringLess(_, _)
StringLess(a, b) ==
    IF b = << >> THEN FALSE
    ELSE IF a = << >> THEN TRUE
    ELSE IF a[1] # b[1] THEN a[1] < b[1]
    ELSE StringLess(Tail(a), Tail(b))

Less(x, y) == StringLess(x.Name, y.Name)

\* sort.Slice on a short slice: insertion sort, an element moves left while
\* it is less than its left neighbour
RECURSIVE InsertSorted(_, _)
InsertSorted(s, x) ==
    IF s = << >> THEN <<x>>
    ELSE IF Less(x, s[Len(s)])
    THEN Append(InsertSorted(SubSeq(s, 1, Len(s) - 1), x), s[Len(s)])
    ELSE Append(s, x)

RECURSIVE SortPrefix(_, _)
SortPrefix(s, n) ==
    IF n = 0 THEN << >> ELSE InsertSorted(SortPrefix(s, n - 1), s[n])

\* the sort left out
SortStoreInfos_None(s) == s

\* the comparison the wrong way round: the order of SortPrefix, reversed
SortStoreInfos_Descending(s) ==
    [i \in 1..Len(s) |-> SortPrefix(s, Len(s))[Len(s) + 1 - i]]

SortStoreInfos(s) == SortPrefix(s, Len(s))

\* the loop never sets index
FindIndex_Zero(s, storeKey) == 0

\* index starts at the last entry instead of the first
FindIndex_Last(s, storeKey) ==
    LET hits == {i \in 1..Len(s) : s[i].Name = storeKey}
    IN  IF hits = {} THEN (IF Len(s) = 0 THEN 0 ELSE Len(s) - 1)
        ELSE (CHOOSE i \in hits : \A j \in hits : j <= i) - 1

\* the loop of GetStoreProof: index stays 0 unless a name equals storeKey
\* (0-based, the last match)
FindIndex(s, storeKey) ==
    LET hits == {i \in 1..Len(s) : s[i].Name = storeKey}
    IN  IF hits = {} THEN 0
        ELSE (CHOOSE i \in hits : \A j \in hits : j <= i) - 1

\* GetStoreProof with the empty list guarded: no panic, an empty proof
GetStoreProof_Guarded(c, storeKey) ==
    LET sorted == SortStoreInfos(c.StoreInfos)
        c1     == [c EXCEPT !.StoreInfos = sorted]
        n      == Len(sorted)
        leaves == [i \in 1..n |-> LeafHash(sorted[i].Name, GetHash(sorted[i]))]
        index  == FindIndex(sorted, storeKey)
        pr     == ProofFromByteSlices(leaves, index)
    IN  [ci |-> c1, root |-> pr.rootHash,
         op |-> ConvertCommitmentOp(pr.inners, storeKey,
                    IF index < n THEN GetHash(sorted[index + 1]) ELSE << >>),
         err |-> "nil", outcome |-> "ok"]

GetStoreProof(c, storeKey) ==
    LET sorted == SortStoreInfos(c.StoreInfos)
        c1     == [c EXCEPT !.StoreInfos = sorted]
        n      == Len(sorted)
        leaves == [i \in 1..n |-> LeafHash(sorted[i].Name, GetHash(sorted[i]))]
        index  == FindIndex(sorted, storeKey)
        pr     == ProofFromByteSlices(leaves, index)
    IN  IF \E i \in 1..n : LeafHashErr(sorted[i].Name, GetHash(sorted[i]))
        THEN [ci |-> c1, root |-> << >>, op |-> NoOp, err |-> "LeafHash",
              outcome |-> "error"]
        ELSE IF index >= n
        THEN \* ci.StoreInfos[index]: index out of range
             [ci |-> c1, root |-> << >>, op |-> NoOp, err |-> "nil",
              outcome |-> "panic"]
        ELSE [ci |-> c1, root |-> pr.rootHash,
              op |-> ConvertCommitmentOp(pr.inners, storeKey, GetHash(sorted[index + 1])),
              err |-> "nil", outcome |-> "ok"]

\* Hash with the computed root kept in CommitHash
Hash_Caching(c) ==
    IF Len(c.StoreInfos) = 0 THEN [ci |-> c, ret |-> << >>]
    ELSE IF Len(c.CommitHash) # 0 THEN [ci |-> c, ret |-> c.CommitHash]
    ELSE LET r == GetStoreProof(c, << >>)
         IN  [ci |-> [r.ci EXCEPT !.CommitHash = r.root], ret |-> r.root]

Hash(c) ==
    IF Len(c.StoreInfos) = 0 THEN [ci |-> c, ret |-> << >>]
    ELSE IF Len(c.CommitHash) # 0 THEN [ci |-> c, ret |-> c.CommitHash]
    ELSE LET r == GetStoreProof(c, << >>)
         IN  [ci |-> r.ci, ret |-> r.root]

GetStoreCommitID(c, storeKey) ==
    LET hits == {i \in 1..Len(c.StoreInfos) : c.StoreInfos[i].Name = storeKey}
    IN  IF hits = {} THEN ZeroCommitID
        ELSE c.StoreInfos[CHOOSE i \in hits : \A j \in hits : i <= j].CommitID

-----------------------------------------------------------------------------
(* time.Time as Marshal and Unmarshal use it *)

Second == 1000000000

\* Go's / and % truncate toward zero
TruncDiv(a, b) == IF a >= 0 THEN a \div b ELSE -((-a) \div b)
TruncRem(a, b) == a - b * TruncDiv(a, b)

UnixNano(t) == t.sec * Second + t.nsec

\* time.Unix(sec, nsec): nsec outside [0, 999999999] is carried into sec
TimeUnix(sec, nsec) ==
    IF nsec < 0 \/ nsec >= Second
    THEN LET n  == TruncDiv(nsec, Second)
             s1 == sec + n
             n1 == nsec - n * Second
         IN  IF n1 < 0 THEN [zero |-> FALSE, sec |-> s1 - 1, nsec |-> n1 + Second]
             ELSE [zero |-> FALSE, sec |-> s1, nsec |-> n1]
    ELSE [zero |-> FALSE, sec |-> sec, nsec |-> nsec]

\* the nanoseconds within the second dropped
TimeFromUnixNano_Seconds(ts) == TimeUnix(TruncDiv(ts, Second), 0)

TimeFromUnixNano(ts) == TimeUnix(TruncDiv(ts, Second), TruncRem(ts, Second))


-----------------------------------------------------------------------------
(* The codec's primitives: varints and length-prefixed byte strings *)

RECURSIVE EncodeUvarint(_)
EncodeUvarint(u) ==
    IF u < 128 THEN <<u>> ELSE <<(u % 128) + 128>> \o EncodeUvarint(u \div 128)

\* zigzag, then unsigned varint
EncodeVarint(x) == EncodeUvarint(IF x >= 0 THEN 2 * x ELSE -2 * x - 1)

EncodeBytes(b) == EncodeUvarint(Len(b)) \o b

RECURSIVE DecodeUvarint(_)
DecodeUvarint(b) ==
    IF b = << >> THEN [value |-> 0, n |-> 0, err |-> TRUE]
    ELSE IF b[1] < 128 THEN [value |-> b[1], n |-> 1, err |-> FALSE]
    ELSE LET rest == DecodeUvarint(Tail(b))
         IN  [value |-> (b[1] - 128) + 128 * rest.value, n |-> rest.n + 1,
              err |-> rest.err]

DecodeVarint(b) ==
    LET u == DecodeUvarint(b)
    IN  [value |-> IF u.value % 2 = 0 THEN u.value \div 2 ELSE -((u.value + 1) \div 2),
         n |-> u.n, err |-> u.err]

DecodeBytes(b) ==
    LET l == DecodeUvarint(b)
    IN  IF l.err \/ Len(b) < l.n + l.value
        THEN [value |-> << >>, n |-> 0, err |-> TRUE]
        ELSE [value |-> SubSeq(b, l.n + 1, l.n + l.value), n |-> l.n + l.value,
              err |-> FALSE]

Drop(b, n) == SubSeq(b, n + 1, Len(b))

-----------------------------------------------------------------------------
(* commit_info.go: Marshal and Unmarshal *)

RECURSIVE MarshalStoreInfos(_)
MarshalStoreInfos(s) ==
    IF s = << >> THEN << >>
    ELSE EncodeBytes(Head(s).Name) \o EncodeBytes(Head(s).CommitID.Hash)
         \o MarshalStoreInfos(Tail(s))

Marshal(c) ==
    EncodeUvarint(c.Version) \o EncodeVarint(UnixNano(c.Timestamp))
    \o EncodeUvarint(Len(c.StoreInfos)) \o MarshalStoreInfos(c.StoreInfos)

\* the loop of Unmarshal from entry i on: infos is ci.StoreInfos so far
RECURSIVE UnmarshalStoreInfos(_, _, _, _)
UnmarshalStoreInfos(infos, i, b, version) ==
    IF i > Len(infos) THEN [infos |-> infos, err |-> "nil"]
    ELSE LET name == DecodeBytes(b)
             b1   == Drop(b, name.n)
             withName == [infos EXCEPT ![i].Name = name.value]
             hash == DecodeBytes(b1)
         IN  IF name.err THEN [infos |-> infos, err |-> "decode"]
             ELSE IF hash.err THEN [infos |-> withName, err |-> "decode"]
             ELSE UnmarshalStoreInfos(
                      [withName EXCEPT ![i].CommitID =
                           [Hash |-> hash.value, Version |-> version]],
                      i + 1, Drop(b1, hash.n), version)

Unmarshal(c, b) ==
    LET version == DecodeUvarint(b)
        b1 == Drop(b, version.n)
        c1 == [c EXCEPT !.Version = version.value]
        timestamp == DecodeVarint(b1)
        b2 == Drop(b1, timestamp.n)
        c2 == [c1 EXCEPT !.Timestamp = TimeFromUnixNano(timestamp.value)]
        storeInfosLen == DecodeUvarint(b2)
        b3 == Drop(b2, storeInfosLen.n)
        made == [i \in 1..storeInfosLen.value |-> ZeroStoreInfo]
        loop == UnmarshalStoreInfos(made, 1, b3, c2.Version)
    IN  IF version.err THEN [ci |-> c, err |-> "decode"]
        ELSE IF timestamp.err THEN [ci |-> c1, err |-> "decode"]
        ELSE IF storeInfosLen.err THEN [ci |-> c2, err |-> "decode"]
        ELSE [ci |-> [c2 EXCEPT !.StoreInfos = loop.infos], err |-> loop.err]

-----------------------------------------------------------------------------
(* The caller *)

\* the values a verifier may claim for a key
ArgValues == StoreHashes

\* the argument lists of Run: none, one value, or the same value 2..MaxArgs times
ArgLists ==
    {<< >>} \cup {[i \in 1..n |-> v] : n \in 1..MaxArgs, v \in ArgValues}

\* the version and the time of a commit, as the owner sets them
Stamps ==
    {[v |-> 1, t |-> TimeUnix(1, 1)],
     [v |-> 300, t |-> TimeUnix(-2, 999999999)],
     [v |-> 300, t |-> TimeUnix(0, 0)]}

\* the stores' hashes: all stores alike, or alternating along the list
HashPatterns == {"same", "alternate"}

MakeStoreInfos(names, pattern) ==
    [i \in 1..Len(names) |->
        [Name |-> names[i],
         CommitID |-> [Version |-> 1,
                       Hash |-> IF pattern = "alternate" /\ i % 2 = 1
                                THEN <<34>> ELSE <<17>>]]]

\* a CommitInfo as its owner builds it: CommitHash is left unset, or filled
\* with the aggregate root of the stores
NewCommitInfo(v, stores, t, cached) ==
    LET c == [Version |-> v, StoreInfos |-> stores, Timestamp |-> t,
              CommitHash |-> << >>]
    IN  IF cached THEN [c EXCEPT !.CommitHash = GetStoreProof(c, << >>).root]
        ELSE c

StoreInfoSeqs ==
    {MakeStoreInfos(names, p) : names \in DistinctSeqs(Names, MaxStores),
                                p \in HashPatterns}

Prefixes(b) == {SubSeq(b, 1, n) : n \in 0..Len(b)}


\* a CommitInfo whose decoding failed is dropped: nothing is called on it
Usable == ~(last = "Unmarshal" /\ err # "nil")

Returned(c, o, name, k, a, rt, cop, rs, e, oc, id, b, w, s, fh) ==
    /\ ci' = c
    /\ old' = o
    /\ last' = name
    /\ key' = k
    /\ args' = a
    /\ root' = rt
    /\ op' = cop
    /\ roots' = rs
    /\ err' = e
    /\ outcome' = oc
    /\ cid' = id
    /\ buf' = b
    /\ wire' = w
    /\ sent' = s
    /\ firstHash' = fh
    /\ UNCHANGED changes

Init ==
    \E stores \in StoreInfoSeqs, st \in Stamps, cached \in BOOLEAN :
        /\ ci = NewCommitInfo(st.v, stores, st.t, cached /\ stores # << >>)
        /\ old = ZeroCommitInfo
        /\ last = "New"
        /\ key = << >>
        /\ args = << >>
        /\ root = << >>
        /\ op = NoOp
        /\ roots = << >>
        /\ err = "nil"
        /\ outcome = "ok"
        /\ cid = ZeroCommitID
        /\ buf = << >>
        /\ wire = << >>
        /\ sent = ZeroCommitInfo
        /\ firstHash = << >>
        /\ changes = 0

DoHash ==
    /\ Usable
    /\ LET r == Hash(ci)
       IN  Returned(r.ci, ci, "Hash", << >>, << >>, r.ret, NoOp, << >>, "nil", "ok",
                    ZeroCommitID, << >>, << >>, ZeroCommitInfo,
                    IF firstHash = << >> THEN <<r.ret>> ELSE firstHash)

DoGetStoreProof ==
    /\ Usable
    /\ \E k \in StoreKeys :
          LET r == GetStoreProof(ci, k)
          IN  Returned(r.ci, ci, "GetStoreProof", k, << >>, r.root, r.op, << >>, r.err,
                       r.outcome, ZeroCommitID, << >>, << >>, ZeroCommitInfo, firstHash)

DoGetStoreCommitID ==
    /\ Usable
    /\ \E k \in StoreKeys :
          Returned(ci, ci, "GetStoreCommitID", k, << >>, << >>, NoOp, << >>, "nil", "ok",
                   GetStoreCommitID(ci, k), << >>, << >>, ZeroCommitInfo, firstHash)

\* op.Run(args) on the CommitmentOp the last GetStoreProof returned
DoRun ==
    /\ op # NoOp
    /\ \E a \in ArgLists :
          LET r == Run(op, a)
          IN  Returned(ci, ci, "Run", key, a, root, op, r.roots, r.err,
                       IF r.err = "nil" THEN "ok" ELSE "error",
                       ZeroCommitID, << >>, << >>, ZeroCommitInfo, firstHash)

DoMarshal ==
    /\ Usable
    /\ Returned(ci, ci, "Marshal", << >>, << >>, << >>, NoOp, << >>, "nil", "ok",
                ZeroCommitID, << >>, Marshal(ci), ci, firstHash)

\* new(CommitInfo).Unmarshal(b): b is the marshalled record, whole or cut short
DoUnmarshal ==
    /\ wire # << >>
    /\ \E b \in Prefixes(wire) :
          LET r == Unmarshal(ZeroCommitInfo, b)
          IN  Returned(r.ci, ZeroCommitInfo, "Unmarshal", << >>, << >>, << >>, NoOp,
                       << >>, r.err, IF r.err = "nil" THEN "ok" ELSE "error",
                       ZeroCommitID, b, wire, sent, << >>)

Next ==
    \/ DoHash
    \/ DoGetStoreProof
    \/ DoGetStoreCommitID
    \/ DoRun
    \/ DoMarshal
    \/ DoUnmarshal

Spec == Init /\ [][Next]_vars

-----------------------------------------------------------------------------
(* The same object changed and reused by its owner.  The fields are          *)
(* exported: the owner may change StoreInfos in place and may decode into a  *)
(* CommitInfo that is already in use.                                        *)

\* a record of another commit, as read back from storage
StoredBuf ==
    Marshal(NewCommitInfo(300, MakeStoreInfos(<<<<99>>, <<97>>>>, "alternate"),
                          TimeUnix(0, 0), FALSE))

OtherHash(h) == IF h = <<17>> THEN <<34>> ELSE <<17>>

Changed(stores, name) ==
    /\ Usable
    /\ changes < MaxChanges
    /\ ci' = [ci EXCEPT !.StoreInfos = stores]
    /\ old' = ci
    /\ last' = name
    /\ key' = << >>
    /\ args' = << >>
    /\ root' = << >>
    /\ op' = NoOp
    /\ roots' = << >>
    /\ err' = "nil"
    /\ outcome' = "ok"
    /\ cid' = ZeroCommitID
    /\ buf' = << >>
    /\ wire' = << >>
    /\ sent' = ZeroCommitInfo
    /\ firstHash' = firstHash
    /\ changes' = changes + 1

\* ci.StoreInfos[i].CommitID.Hash = h
SetStoreHash ==
    \E i \in 1..Len(ci.StoreInfos) :
        Changed([ci.StoreInfos EXCEPT
                    ![i].CommitID.Hash = OtherHash(ci.StoreInfos[i].CommitID.Hash)],
                "SetStoreHash")

\* ci.StoreInfos = append(ci.StoreInfos, StoreInfo{...})
AddStore ==
    /\ Len(ci.StoreInfos) < MaxStores
    /\ \E n \in Names \ {ci.StoreInfos[i].Name : i \in 1..Len(ci.StoreInfos)} :
          Changed(Append(ci.StoreInfos,
                         [Name |-> n,
                          CommitID |-> [Version |-> ci.Version, Hash |-> <<34>>]]),
                  "AddStore")

\* ci.StoreInfos = append(ci.StoreInfos[:i], ci.StoreInfos[i+1:]...)
RemoveStore ==
    \E i \in 1..Len(ci.StoreInfos) :
        Changed(SubSeq(ci.StoreInfos, 1, i - 1)
                    \o SubSeq(ci.StoreInfos, i + 1, Len(ci.StoreInfos)),
                "RemoveStore")

\* ci.Unmarshal(b) on the CommitInfo in use: b is the record just
\* marshalled or the stored one
DoUnmarshalInto ==
    \E b \in ({wire} \ {<< >>}) \cup {StoredBuf} :
        LET r == Unmarshal(ci, b)
        IN  Returned(r.ci, ci, "Unmarshal", << >>, << >>, << >>, NoOp, << >>, r.err,
                     IF r.err = "nil" THEN "ok" ELSE "error", ZeroCommitID, b,
                     wire, sent, << >>)

InitReuse == Init /\ ci.Version = 1

NextReuse ==
    \/ DoHash
    \/ DoGetStoreProof
    \/ DoMarshal
    \/ SetStoreHash
    \/ AddStore
    \/ RemoveStore
    \/ DoUnmarshalInto

SpecReuse == InitReuse /\ [][NextReuse]_vars

-----------------------------------------------------------------------------
(* What the claims speak of *)

NamesOf(c) == {c.StoreInfos[i].Name : i \in 1..Len(c.StoreInfos)}
UniqueNames(c) == Cardinality(NamesOf(c)) = Len(c.StoreInfos)

\* the hash recorded for a store name present in c
StoreHashOf(c, n) ==
    c.StoreInfos[CHOOSE i \in 1..Len(c.StoreInfos) : c.StoreInfos[i].Name = n].CommitID.Hash

\* the store infos in every order
Orders(s) == {[i \in 1..Len(s) |-> s[f[i]]] : f \in Permutations(1..Len(s))}

SortedByName(s) ==
    \A i \in 1..Len(s) : \A j \in 1..Len(s) :
        i < j => ~StringLess(s[j].Name, s[i].Name)

\* the root of the tree over the stores in name order
AggregateRoot(s) ==
    LET o == CHOOSE x \in Orders(s) : SortedByName(x)
    IN  HashFromByteSlices([i \in 1..Len(o) |-> LeafHash(o[i].Name, o[i].CommitID.Hash)])

\* the entry with the smallest name
SmallestStore(s) ==
    s[CHOOSE i \in 1..Len(s) : \A j \in 1..Len(s) : ~StringLess(s[j].Name, s[i].Name)]

-----------------------------------------------------------------------------
C2_HashDeterminism ==
    (last = "Hash" /\ UniqueNames(old)) =>
        /\ \A s \in Orders(old.StoreInfos) :
              Hash([old EXCEPT !.StoreInfos = s]).ret = root
        /\ firstHash # << >>
        /\ root = firstHash[1]

C2_Witness ==
    /\ last = "Hash"
    /\ Len(old.StoreInfos) >= 3
    /\ old.CommitHash = << >>
    /\ ~SortedByName(old.StoreInfos)
    /\ root # << >>

C4_ArityGuard ==
    (last = "Run" /\ Len(args) >= 2) =>
        /\ outcome = "error"
        /\ roots = << >>
        /\ err = IF Calculate(op.Proof).err THEN ErrCalculate ELSE ErrArgs

C4_Witness ==
    /\ last = "Run"
    /\ Len(args) >= 2
    /\ err = ErrArgs
    /\ roots = << >>

(* C4, as claimed. Run with 2 or more arguments fails with the              *)
(* wrong-argument-count error whatever the embedded proof is, also when its *)
(* root cannot be calculated, and returns no root.                          *)
C4_Original ==
    (last = "Run" /\ Len(args) >= 2) => (err = ErrArgs /\ roots = << >>)

C6_HashAfterDecode ==
    [][(last = "Unmarshal" /\ err = "nil" /\ last' = "Hash") =>
          root' = AggregateRoot(ci.StoreInfos)]_vars

(* C7. Empty aggregate: with empty StoreInfos Hash() returns nil and changes*)
(* no field; GetStoreProof, for any name, does not return normally: it      *)
(* yields no root and no CommitmentOp.                                      *)
C7_EmptyAggregate ==
    /\ (last = "Hash" /\ old.StoreInfos = << >>) => (root = << >> /\ ci = old)
    /\ (last = "GetStoreProof" /\ old.StoreInfos = << >>) =>
          /\ outcome \in {"error", "panic"}
          /\ root = << >>
          /\ op = NoOp

C7_Witness ==
    /\ last = "GetStoreProof"
    /\ old.StoreInfos = << >>
    /\ key # << >>
    /\ outcome = "panic"

(* C8. Wrong claims are rejected: the CommitmentOp of GetStoreProof(n), n   *)
(* present with hash h, fails Run([v]) for every v other than h and fails   *)
(* Run([]), with an invalid-proof error and no root.                        *)
C8_WrongClaimsRejected ==
    (last = "Run" /\ key \in NamesOf(ci)) =>
        /\ (Len(args) = 1 /\ args[1] # StoreHashOf(ci, key)) =>
              (err = ErrExistence /\ roots = << >> /\ outcome = "error")
        /\ args = << >> => (err = ErrAbsence /\ roots = << >> /\ outcome = "error")

C8_Witness ==
    /\ last = "Run"
    /\ key \in NamesOf(ci)
    /\ Len(ci.StoreInfos) >= 2
    /\ Len(args) = 1
    /\ args[1] # StoreHashOf(ci, key)
    /\ err = ErrExistence

C10_ProofSortsInPlace ==
    (\/ (last = "GetStoreProof" /\ old.StoreInfos # << >>)
     \/ (last = "Hash" /\ old.StoreInfos # << >> /\ old.CommitHash = << >>)) =>
        /\ SortedByName(ci.StoreInfos)
        /\ ci.StoreInfos \in Orders(old.StoreInfos)
        /\ ci.Version = old.Version
        /\ ci.Timestamp = old.Timestamp
        /\ \A n \in StoreKeys : GetStoreCommitID(ci, n) = GetStoreCommitID(old, n)

C10_Witness ==
    /\ last = "GetStoreProof"
    /\ Len(old.StoreInfos) >= 3
    /\ ci.StoreInfos # old.StoreInfos
    /\ SortedByName(ci.StoreInfos)

=============================================================================
